---- MODULE Spec2Model ----
(***************************************************************************)
(* Model of the registry's manifest validation engine                      *)
(* (internal/validators/validators.go) and of the seed import pipeline     *)
(* (internal/importer/importer.go).                                        *)
(*                                                                         *)
(* Go strings are TLA+ strings; indices are 1-based and 0 means "absent".  *)
(* A Go error is a string holding its message, Nil is the nil error.       *)
(***************************************************************************)
EXTENDS Integers, Sequences, FiniteSets, TLC

(***************************************************************************)
(* Go's strings package.                                                   *)
(***************************************************************************)
Char(s, i) == SubSeq(s, i, i)

HasPrefix(s, p) == Len(s) >= Len(p) /\ SubSeq(s, 1, Len(p)) = p

HasSuffix(s, p) == Len(s) >= Len(p) /\ SubSeq(s, Len(s) - Len(p) + 1, Len(s)) = p

\* strings.Index: position of the first occurrence of sub in s, 0 when absent.
Index(s, sub) ==
    LET hits == {i \in 1..(Len(s) - Len(sub) + 1) : SubSeq(s, i, i + Len(sub) - 1) = sub}
    IN  IF hits = {} THEN 0 ELSE CHOOSE i \in hits : \A j \in hits : i <= j

\* strings.LastIndex
LastIndex(s, sub) ==
    LET hits == {i \in 1..(Len(s) - Len(sub) + 1) : SubSeq(s, i, i + Len(sub) - 1) = sub}
    IN  IF hits = {} THEN 0 ELSE CHOOSE i \in hits : \A j \in hits : i >= j

Contains(s, sub) == Index(s, sub) # 0

\* strings.Count for a one-character separator.
Count(s, c) == Cardinality({i \in 1..Len(s) : Char(s, i) = c})

\* strings.Split for a one-character separator.
RECURSIVE Split(_, _)
Split(s, c) ==
    LET i == Index(s, c)
    IN  IF i = 0 THEN <<s>>
        ELSE <<SubSeq(s, 1, i - 1)>> \o Split(SubSeq(s, i + 1, Len(s)), c)

\* strings.Join
RECURSIVE Join(_, _)
Join(parts, sep) ==
    IF Len(parts) = 0 THEN ""
    ELSE IF Len(parts) = 1 THEN parts[1]
    ELSE parts[1] \o sep \o Join(Tail(parts), sep)

\* slices.Reverse
Reverse(parts) == [i \in 1..Len(parts) |-> parts[Len(parts) + 1 - i]]

Whitespace == {" ", "\t", "\n", "\r", "\f"}

\* strings.TrimSpace
RECURSIVE TrimSpace(_)
TrimSpace(s) ==
    IF Len(s) = 0 THEN s
    ELSE IF Char(s, 1) \in Whitespace THEN TrimSpace(SubSeq(s, 2, Len(s)))
    ELSE IF Char(s, Len(s)) \in Whitespace THEN TrimSpace(SubSeq(s, 1, Len(s) - 1))
    ELSE s

Lower == {"a", "b", "c", "d", "e", "f", "g", "h", "i", "j", "k", "l", "m",
          "n", "o", "p", "q", "r", "s", "t", "u", "v", "w", "x", "y", "z"}

Upper == {"A", "B", "C", "D", "E", "F", "G", "H", "I", "J", "K", "L", "M",
          "N", "O", "P", "Q", "R", "S", "T", "U", "V", "W", "X", "Y", "Z"}

Digit == {"0", "1", "2", "3", "4", "5", "6", "7", "8", "9"}

Alnum == Lower \cup Upper \cup Digit

LowerOf ==
    [c \in Upper |->
        CASE c = "A" -> "a" [] c = "B" -> "b" [] c = "C" -> "c" [] c = "D" -> "d"
          [] c = "E" -> "e" [] c = "F" -> "f" [] c = "G" -> "g" [] c = "H" -> "h"
          [] c = "I" -> "i" [] c = "J" -> "j" [] c = "K" -> "k" [] c = "L" -> "l"
          [] c = "M" -> "m" [] c = "N" -> "n" [] c = "O" -> "o" [] c = "P" -> "p"
          [] c = "Q" -> "q" [] c = "R" -> "r" [] c = "S" -> "s" [] c = "T" -> "t"
          [] c = "U" -> "u" [] c = "V" -> "v" [] c = "W" -> "w" [] c = "X" -> "x"
          [] c = "Y" -> "y" [] c = "Z" -> "z"]

\* strings.ToLower (ASCII)
RECURSIVE ToLower(_)
ToLower(s) ==
    IF Len(s) = 0 THEN s
    ELSE (IF Char(s, 1) \in Upper THEN LowerOf[Char(s, 1)] ELSE Char(s, 1))
         \o ToLower(SubSeq(s, 2, Len(s)))

\* Every character of s[i..j-1] lies in the class cls.
AllIn(s, i, j, cls) == \A k \in i..(j - 1) : Char(s, k) \in cls

\* %d of a small non-negative integer.
RECURSIVE Itoa(_)
Itoa(n) ==
    IF n < 10 THEN Char("0123456789", n + 1)
    ELSE Itoa(n \div 10) \o Char("0123456789", (n % 10) + 1)

\* The nil error.
Nil == "<nil>"

(***************************************************************************)
(* net/url: url.Parse, URL.IsAbs, URL.Hostname, reduced to the parts the   *)
(* validators read: the scheme (lower-cased), the authority's host without *)
(* userinfo and port, and the parse failures.                              *)
(***************************************************************************)
SchemeChars == Alnum \cup {"+", "-", "."}

\* Characters url.Parse refuses in a host name.
InvalidHostChars == {" ", "{", "}", "|", "^", "%", "\t"}

\* getScheme: the position of the ':' ending a scheme, 0 for none, -1 for the
\* "missing protocol scheme" failure (a leading ':').
SchemeEnd(s) ==
    LET stops == {i \in 1..Len(s) : Char(s, i) \notin SchemeChars
                                    \/ (i = 1 /\ Char(s, i) \notin (Lower \cup Upper))}
        first == IF stops = {} THEN 0 ELSE CHOOSE i \in stops : \A j \in stops : i <= j
    IN  IF first = 0 THEN 0
        ELSE IF Char(s, first) = ":" THEN (IF first = 1 THEN -1 ELSE first)
        ELSE 0

\* The first position of s at or after 'from' holding a character of stops,
\* Len(s) + 1 when there is none.
FirstOf(s, from, stops) ==
    LET hits == {i \in from..Len(s) : Char(s, i) \in stops}
    IN  IF hits = {} THEN Len(s) + 1 ELSE CHOOSE i \in hits : \A j \in hits : i <= j

BadURL == [ok |-> FALSE, scheme |-> "", host |-> "", hostname |-> ""]

ParsedURL(scheme, host, hostname) ==
    [ok |-> TRUE, scheme |-> scheme, host |-> host, hostname |-> hostname]

\* s up to, not including, position i; all of s when i = 0.
Before(s, i) == IF i = 0 THEN s ELSE SubSeq(s, 1, i - 1)

\* s after position i.
After(s, i) == SubSeq(s, i + 1, Len(s))

\* parseHost and URL.Hostname on host[:port], colon the position of the last ':'.
ParseHostPort(scheme, host, colon) ==
    IF colon # 0 /\ ~AllIn(host, colon + 1, Len(host) + 1, Digit) THEN BadURL
    ELSE IF \E i \in 1..Len(host) : Char(host, i) \in InvalidHostChars THEN BadURL
    ELSE ParsedURL(scheme, host, Before(host, colon))

\* parseAuthority: drop the userinfo, then parse the host.
ParseAuthority(scheme, auth) ==
    ParseHostPort(scheme, After(auth, LastIndex(auth, "@")),
                  LastIndex(After(auth, LastIndex(auth, "@")), ":"))

\* url.parse once the scheme, the query and the fragment are split off.
ParseRest(scheme, rest) ==
    IF ~HasPrefix(rest, "/") /\ scheme # ""
    THEN ParsedURL(scheme, "", "")     \* opaque: data:..., https:host
    ELSE IF ~HasPrefix(rest, "/") /\ scheme = ""
            /\ Contains(Before(rest, Index(rest, "/")), ":")
    THEN BadURL                        \* first path segment cannot contain colon
    ELSE IF HasPrefix(rest, "//") /\ (scheme # "" \/ ~HasPrefix(rest, "///"))
    THEN ParseAuthority(scheme, SubSeq(rest, 3, FirstOf(rest, 3, {"/"}) - 1))
    ELSE ParsedURL(scheme, "", "")

\* url.parse of s (no fragment), se the result of getScheme.
ParseScheme(s, se) ==
    IF se = -1 THEN BadURL
    ELSE IF se > 0
    THEN ParseRest(ToLower(Before(s, se)), Before(After(s, se), Index(After(s, se), "?")))
    ELSE ParseRest("", Before(s, Index(s, "?")))

\* url.Parse: [ok, scheme, host, hostname].
ParseURL(raw) ==
    IF \E i \in 1..Len(raw) : Char(raw, i) \in {"\n", "\r"} THEN BadURL
    ELSE ParseScheme(Before(raw, Index(raw, "#")),
                     SchemeEnd(Before(raw, Index(raw, "#"))))

SchemeHTTPS == "https"

(***************************************************************************)
(* regexp: a pattern is run as a map on sets of positions. Each operator   *)
(* takes the set S of positions a match may have reached and returns the   *)
(* positions it may reach after one more piece of the pattern.             *)
(***************************************************************************)
Positions(s) == 1..(Len(s) + 1)

\* \s*
ReSpaces(s, S) == {j \in Positions(s) : \E i \in S : i <= j /\ AllIn(s, i, j, Whitespace)}

\* \s
ReSpace(s, S) == {i + 1 : i \in {k \in S : k <= Len(s) /\ Char(s, k) \in Whitespace}}

\* a literal
ReLit(s, S, lit) ==
    {i + Len(lit) : i \in {k \in S : k + Len(lit) - 1 <= Len(s)
                                     /\ SubSeq(s, k, k + Len(lit) - 1) = lit}}

\* [cls]+
RePlus(s, S, cls) == {j \in Positions(s) : \E i \in S : i < j /\ AllIn(s, i, j, cls)}

\* one of several literals
ReAnyLit(s, S, lits) == UNION {ReLit(s, S, l) : l \in lits}

PreReleaseChars == Alnum \cup {".", "-"}

\* \.\d+
ReDotNum(s, S) == RePlus(s, ReLit(s, S, "."), Digit)

\* v?\d+(?:\.\d+){0,3}(?:-[0-9A-Za-z.-]+)?
ReVersion(s, S) ==
    LET n0 == RePlus(s, S \cup ReLit(s, S, "v"), Digit)
        n1 == ReDotNum(s, n0)
        n2 == ReDotNum(s, n1)
        n3 == ReDotNum(s, n2)
        core == n0 \cup n1 \cup n2 \cup n3
    IN  core \cup RePlus(s, ReLit(s, core, "-"), PreReleaseChars)

AtEnd(s, S) == (Len(s) + 1) \in S

\* ^\s*(?:\^|~|>=|<=|>|<|=)\s*v?\d+(?:\.\d+){0,3}(?:-[0-9A-Za-z.-]+)?\s*$
comparatorRangeRe(s) ==
    LET a == ReSpaces(s, {1})
        b == ReAnyLit(s, a, {"^", "~", ">=", "<=", ">", "<", "="})
        c == ReVersion(s, ReSpaces(s, b))
    IN  AtEnd(s, ReSpaces(s, c))

\* ^\s*VERSION\s-\s*VERSION\s*$
hyphenRangeRe(s) ==
    LET a == ReVersion(s, ReSpaces(s, {1}))
        b == ReLit(s, ReSpace(s, a), "-")
        c == ReVersion(s, ReSpaces(s, b))
    IN  AtEnd(s, ReSpaces(s, c))

\* (?:\|\|\s*VERSION\s*)+ : the positions reachable after one or more rounds.
RECURSIVE ReOrTail(_, _, _)
ReOrTail(s, S, fuel) ==
    LET once == ReSpaces(s, ReVersion(s, ReSpaces(s, ReLit(s, S, "||"))))
    IN  IF once = {} \/ fuel = 0 THEN once
        ELSE once \cup ReOrTail(s, once, fuel - 1)

\* ^\s*(?:VERSION\s*)(?:\|\|\s*VERSION\s*)+$
orRangeRe(s) ==
    LET a == ReSpaces(s, ReVersion(s, ReSpaces(s, {1})))
    IN  AtEnd(s, ReOrTail(s, a, Len(s)))

\* \.(?:\d+|x|X|\*)
ReDotSeg(s, S) ==
    LET d == ReLit(s, S, ".")
    IN  RePlus(s, d, Digit) \cup ReAnyLit(s, d, {"x", "X", "*"})

\* ^\s*(?:v?\d+|x|X|\*)(?:\.(?:\d+|x|X|\*)){1,2}(?:-[0-9A-Za-z.-]+)?\s*$
dottedVersionLikeRe(s) ==
    LET a  == ReSpaces(s, {1})
        h  == RePlus(s, a \cup ReLit(s, a, "v"), Digit) \cup ReAnyLit(s, a, {"x", "X", "*"})
        s1 == ReDotSeg(s, h)
        s2 == ReDotSeg(s, s1)
        b  == s1 \cup s2
        c  == b \cup RePlus(s, ReLit(s, b, "-"), PreReleaseChars)
    IN  AtEnd(s, ReSpaces(s, c))

NamespaceInner == Alnum \cup {".", "-"}

NamePartInner == Alnum \cup {".", "_", "-"}

\* ^[a-zA-Z0-9][inner]*[a-zA-Z0-9]$
BoundedPattern(s, inner) ==
    /\ Len(s) >= 2
    /\ Char(s, 1) \in Alnum
    /\ Char(s, Len(s)) \in Alnum
    /\ AllIn(s, 2, Len(s), inner)

namespaceRegex(s) == BoundedPattern(s, NamespaceInner)

namePartRegex(s) == BoundedPattern(s, NamePartInner)

\* ^ namespacePattern / namePartPattern $
serverNameRegex(s) ==
    \E i \in 1..Len(s) :
        /\ Char(s, i) = "/"
        /\ namespaceRegex(SubSeq(s, 1, i - 1))
        /\ namePartRegex(SubSeq(s, i + 1, Len(s)))

(***************************************************************************)
(* pkg/model and the validators package's constants and URL helpers.       *)
(***************************************************************************)
CurrentSchemaVersion == "2025-10-17"

LegacySchemaVersion20250929 == "2025-09-29"

SupportedSchemaVersions == <<CurrentSchemaVersion, LegacySchemaVersion20250929>>

IsSupportedSchemaVersion(schemaURL) ==
    IF schemaURL = "" THEN FALSE
    ELSE \E i \in 1..Len(SupportedSchemaVersions) :
             Contains(schemaURL, SupportedSchemaVersions[i])

TransportTypeStdio == "stdio"

TransportTypeStreamableHTTP == "streamable-http"

TransportTypeSSE == "sse"

ArgumentTypeNamed == "named"

ArgumentTypePositional == "positional"

ErrMultipleSlashesInServerName == "server name cannot contain multiple slashes"

ErrInvalidServerNameFormat == "server name format is invalid"

ErrReservedVersionString == "version string latest is reserved"

ErrVersionLooksLikeRange == "version must be a specific version, not a range"

ErrInvalidRepositoryURL == "invalid repository URL"

ErrInvalidSubfolderPath == "invalid subfolder path"

ErrPackageNameHasSpaces == "package name cannot contain spaces"

ErrNamedArgumentNameRequired == "named argument name is required"

ErrInvalidNamedArgumentName == "invalid named argument name format"

ErrArgumentValueStartsWithName == "argument value cannot start with the argument name"

ErrArgumentDefaultStartsWithName == "argument default cannot start with the argument name"

ErrInvalidRemoteURL == "invalid remote URL"

HasNoSpaces(s) == ~Contains(s, " ")

\* The URL of a repository lies under the host of its declared source kind.
IsValidRepositoryURL(source, repoURL) ==
    \/ source = "github" /\ HasPrefix(repoURL, "https://github.com/")
                         /\ Len(repoURL) > Len("https://github.com/")
    \/ source = "gitlab" /\ HasPrefix(repoURL, "https://gitlab.com/")
                         /\ Len(repoURL) > Len("https://gitlab.com/")

\* A safe relative path: not absolute, no ".." segment.
IsValidSubfolderPath(path) ==
    /\ ~HasPrefix(path, "/")
    /\ \A i \in 1..Len(Split(path, "/")) : Split(path, "/")[i] # ".."

\* The names between braces of every {name} placeholder of a URL, in order.
RECURSIVE extractTemplateVariables(_)
extractTemplateVariables(rawURL) ==
    LET open  == Index(rawURL, "{")
        after == SubSeq(rawURL, open + 1, Len(rawURL))
        close == Index(after, "}")
    IN  IF open = 0 \/ close = 0 THEN <<>>
        ELSE IF close = 1 THEN extractTemplateVariables(SubSeq(after, 2, Len(after)))
        ELSE <<SubSeq(after, 1, close - 1)>>
             \o extractTemplateVariables(SubSeq(after, close + 1, Len(after)))

\* A URL with every brace of its placeholders dropped.
RECURSIVE replaceTemplateVariables(_)
replaceTemplateVariables(rawURL) ==
    IF Len(rawURL) = 0 THEN rawURL
    ELSE (IF Char(rawURL, 1) \in {"{", "}"} THEN "" ELSE Char(rawURL, 1))
         \o replaceTemplateVariables(SubSeq(rawURL, 2, Len(rawURL)))

\* Basic URL structure: parses, scheme http or https, a host.
HasWebScheme(u) == u.ok /\ u.scheme \in {"http", "https"} /\ u.host # ""

IsValidURL(rawURL) == HasWebScheme(ParseURL(replaceTemplateVariables(rawURL)))

\* A package transport URL: a valid URL whose placeholders are all available.
IsValidTemplatedURL(rawURL, availableVariables, allowTemplates) ==
    LET tv == extractTemplateVariables(rawURL)
    IN  /\ IsValidURL(rawURL)
        /\ (allowTemplates \/ Len(tv) = 0)
        /\ \A i \in 1..Len(tv) :
               \E j \in 1..Len(availableVariables) : availableVariables[j] = tv[i]

IsLocalHostname(hostname) ==
    hostname = "localhost" \/ hostname = "127.0.0.1" \/ HasSuffix(hostname, ".localhost")

\* A remote transport URL: a valid URL without placeholders, https, not localhost.
IsSecureRemote(u) == u.ok /\ u.scheme = SchemeHTTPS /\ ~IsLocalHostname(u.hostname)

IsValidRemoteURL(rawURL) ==
    IsValidTemplatedURL(rawURL, <<>>, FALSE) /\ IsSecureRemote(ParseURL(rawURL))

(***************************************************************************)
(* internal/validators/validators.go                                       *)
(***************************************************************************)
\* The error of the first failing element of a loop that returns on failure.
RECURSIVE FirstError(_)
FirstError(errs) ==
    IF Len(errs) = 0 THEN Nil
    ELSE IF Head(errs) # Nil THEN Head(errs)
    ELSE FirstError(Tail(errs))

Quote(s) == "\"" \o s \o "\""

validateRepository(obj) ==
    IF ~obj.present \/ (obj.url = "" /\ obj.source = "") THEN Nil
    ELSE IF ~IsValidRepositoryURL(obj.source, obj.url)
         THEN ErrInvalidRepositoryURL \o ": " \o obj.url
    ELSE IF obj.subfolder # "" /\ ~IsValidSubfolderPath(obj.subfolder)
         THEN ErrInvalidSubfolderPath \o ": " \o obj.subfolder
    ELSE Nil

\* websiteURLChecks without the https test.
websiteURLChecksAnyScheme(websiteURL, parsedURL) ==
    IF ~parsedURL.ok THEN "invalid websiteUrl: " \o websiteURL
    ELSE IF parsedURL.scheme = ""
         THEN "websiteUrl must be absolute (include scheme): " \o websiteURL
    ELSE Nil

\* validateWebsiteURL after url.Parse.
websiteURLChecks(websiteURL, parsedURL) ==
    IF ~parsedURL.ok THEN "invalid websiteUrl: " \o websiteURL
    ELSE IF parsedURL.scheme = ""
         THEN "websiteUrl must be absolute (include scheme): " \o websiteURL
    ELSE IF parsedURL.scheme # SchemeHTTPS
         THEN "websiteUrl must use https scheme: " \o websiteURL
    ELSE Nil

validateWebsiteURL(websiteURL) ==
    IF websiteURL = "" THEN Nil
    ELSE websiteURLChecks(websiteURL, ParseURL(websiteURL))

validateTitle(title) ==
    IF title = "" THEN Nil
    ELSE IF TrimSpace(title) = "" THEN "title cannot be only whitespace"
    ELSE Nil

\* validateIcon after url.Parse.
iconChecks(icon, parsedURL) ==
    IF ~parsedURL.ok THEN "invalid icon src URL: " \o icon.src
    ELSE IF parsedURL.scheme = ""
         THEN "icon src must be an absolute URL (include scheme): " \o icon.src
    ELSE IF parsedURL.scheme # SchemeHTTPS
         THEN "icon src must use https scheme (got " \o parsedURL.scheme \o "): "
              \o icon.src
    ELSE Nil

validateIcon(icon) == iconChecks(icon, ParseURL(icon.src))

\* fmt.Errorf(prefix + "%w", err) for a non-nil err, nil otherwise.
Wrap(prefix, err) == IF err # Nil THEN prefix \o err ELSE Nil

validateIcons(icons) ==
    IF Len(icons) = 0 THEN Nil
    ELSE FirstError([i \in 1..Len(icons) |->
             Wrap("invalid icon at index " \o Itoa(i - 1) \o ": ", validateIcon(icons[i]))])

\* looksLikeVersionRange taking every dotted version for a wildcard range.
looksLikeVersionRangeAnyDotted(version) ==
    LET trimmed == TrimSpace(version)
    IN  IF trimmed = "" THEN FALSE
        ELSE comparatorRangeRe(trimmed) \/ hyphenRangeRe(trimmed) \/ orRangeRe(trimmed)
             \/ dottedVersionLikeRe(trimmed)

looksLikeVersionRange(version) ==
    LET trimmed == TrimSpace(version)
    IN  IF trimmed = "" THEN FALSE
        ELSE IF comparatorRangeRe(trimmed) THEN TRUE
        ELSE IF hyphenRangeRe(trimmed) THEN TRUE
        ELSE IF orRangeRe(trimmed) THEN TRUE
        ELSE IF dottedVersionLikeRe(trimmed)
             THEN Contains(trimmed, "x") \/ Contains(trimmed, "X") \/ Contains(trimmed, "*")
        ELSE FALSE

validateVersion(version) ==
    IF version = "latest" THEN ErrReservedVersionString
    ELSE IF looksLikeVersionRange(version)
         THEN ErrVersionLooksLikeRange \o ": " \o Quote(version)
    ELSE Nil

validateNamedArgumentName(name) ==
    IF name = "" THEN ErrNamedArgumentNameRequired
    ELSE IF Contains(name, "<") \/ Contains(name, ">")
            \/ Contains(name, " ") \/ Contains(name, "$")
         THEN ErrInvalidNamedArgumentName \o ": " \o name
    ELSE Nil

validateArgumentValueFields(name, value, defaultValue) ==
    IF value # "" /\ HasPrefix(value, name)
    THEN ErrArgumentValueStartsWithName \o ": value starts with argument name '"
         \o name \o "': " \o value
    ELSE IF defaultValue # "" /\ HasPrefix(defaultValue, name)
    THEN ErrArgumentDefaultStartsWithName \o ": default starts with argument name '"
         \o name \o "': " \o defaultValue
    ELSE Nil

validateArgument(obj) ==
    IF obj.type = ArgumentTypeNamed
    THEN IF validateNamedArgumentName(obj.name) # Nil
         THEN validateNamedArgumentName(obj.name)
         ELSE validateArgumentValueFields(obj.name, obj.value, obj.default)
    ELSE Nil

\* The names and value hints of a sequence of arguments, in order.
RECURSIVE ArgumentVariables(_)
ArgumentVariables(args) ==
    IF Len(args) = 0 THEN <<>>
    ELSE (IF Head(args).name # "" THEN <<Head(args).name>> ELSE <<>>)
         \o (IF Head(args).valueHint # "" THEN <<Head(args).valueHint>> ELSE <<>>)
         \o ArgumentVariables(Tail(args))

\* collectAvailableVariables without the arguments' value hints.
collectAvailableVariablesNamesOnly(pkg) ==
    [i \in 1..Len(pkg.environmentVariables) |-> pkg.environmentVariables[i].name]
    \o SelectSeq([i \in 1..Len(pkg.runtimeArguments) |-> pkg.runtimeArguments[i].name],
                 LAMBDA n : n # "")
    \o SelectSeq([i \in 1..Len(pkg.packageArguments) |-> pkg.packageArguments[i].name],
                 LAMBDA n : n # "")

collectAvailableVariables(pkg) ==
    [i \in 1..Len(pkg.environmentVariables) |-> pkg.environmentVariables[i].name]
    \o ArgumentVariables(pkg.runtimeArguments)
    \o ArgumentVariables(pkg.packageArguments)

validatePackageTransport(transport, availableVariables) ==
    IF transport.type = TransportTypeStdio
    THEN IF transport.url # ""
         THEN "url must be empty for " \o transport.type \o " transport type, got: "
              \o transport.url
         ELSE Nil
    ELSE IF transport.type \in {TransportTypeStreamableHTTP, TransportTypeSSE}
    THEN IF transport.url = ""
         THEN "url is required for " \o transport.type \o " transport type"
         ELSE IF ~IsValidTemplatedURL(transport.url, availableVariables, TRUE)
         THEN IF Len(extractTemplateVariables(transport.url)) > 0
              THEN ErrInvalidRemoteURL \o ": template variables in URL " \o transport.url
                   \o " reference undefined variables"
              ELSE ErrInvalidRemoteURL \o ": " \o transport.url
         ELSE Nil
    ELSE "unsupported transport type: " \o transport.type

validatePackageField(obj) ==
    IF ~HasNoSpaces(obj.identifier) THEN ErrPackageNameHasSpaces
    ELSE IF validateVersion(obj.version) # Nil THEN validateVersion(obj.version)
    ELSE LET rt == FirstError([i \in 1..Len(obj.runtimeArguments) |->
                       validateArgument(obj.runtimeArguments[i])])
             pk == FirstError([i \in 1..Len(obj.packageArguments) |->
                       validateArgument(obj.packageArguments[i])])
             tr == validatePackageTransport(obj.transport, collectAvailableVariables(obj))
         IN  IF rt # Nil THEN "invalid runtime argument: " \o rt
             ELSE IF pk # Nil THEN "invalid package argument: " \o pk
             ELSE IF tr # Nil THEN "invalid transport: " \o tr
             ELSE Nil

validateRemoteTransport(obj) ==
    IF obj.type \in {TransportTypeStreamableHTTP, TransportTypeSSE}
    THEN IF obj.url = "" THEN "url is required for " \o obj.type \o " transport type"
         ELSE IF ~IsValidRemoteURL(obj.url) THEN ErrInvalidRemoteURL \o ": " \o obj.url
         ELSE Nil
    ELSE "unsupported transport type for remotes: " \o obj.type

\* parseServerName rejecting multiple slashes only from the third slash on.
parseServerNameThreeSlashes(serverJSON) ==
    LET name  == serverJSON.name
        parts == Split(name, "/")
    IN  IF name = "" THEN "server name is required and must be a string"
        ELSE IF ~Contains(name, "/")
             THEN "server name must be in format 'dns-namespace/name'"
        ELSE IF Count(name, "/") > 2 THEN ErrMultipleSlashesInServerName
        ELSE IF Len(parts) # 2 \/ parts[1] = "" \/ parts[2] = ""
             THEN "server name must be in format 'dns-namespace/name' with non-empty namespace and name parts"
        ELSE IF ~serverNameRegex(name) THEN ErrInvalidServerNameFormat
        ELSE Nil

parseServerName(serverJSON) ==
    LET name  == serverJSON.name
        parts == Split(name, "/")
    IN  IF name = "" THEN "server name is required and must be a string"
        ELSE IF ~Contains(name, "/")
             THEN "server name must be in format 'dns-namespace/name'"
        ELSE IF Count(name, "/") > 1 THEN ErrMultipleSlashesInServerName
        ELSE IF Len(parts) # 2 \/ parts[1] = "" \/ parts[2] = ""
             THEN "server name must be in format 'dns-namespace/name' with non-empty namespace and name parts"
        ELSE IF ~serverNameRegex(name)
             THEN IF ~namespaceRegex(parts[1])
                  THEN ErrInvalidServerNameFormat \o ": namespace '" \o parts[1]
                       \o "' is invalid"
                  ELSE IF ~namePartRegex(parts[2])
                  THEN ErrInvalidServerNameFormat \o ": name '" \o parts[2]
                       \o "' is invalid"
                  ELSE ErrInvalidServerNameFormat \o ": invalid format for '" \o name \o "'"
        ELSE Nil

extractPublisherDomainFromNamespace(namespace) ==
    LET slashIdx      == Index(namespace, "/")
        namespacePart == IF slashIdx # 0 THEN SubSeq(namespace, 1, slashIdx - 1)
                         ELSE namespace
        parts         == Split(namespacePart, ".")
    IN  IF Len(parts) < 2 THEN "" ELSE Join(Reverse(parts), ".")

\* isValidHostForDomain with the subdomain test missing its leading dot.
isValidHostForDomainNoDot(hostname, publisherDomain) ==
    hostname = publisherDomain \/ HasSuffix(hostname, publisherDomain)

isValidHostForDomain(hostname, publisherDomain) ==
    IF hostname = publisherDomain THEN TRUE
    ELSE IF HasSuffix(hostname, "." \o publisherDomain) THEN TRUE
    ELSE FALSE

\* validateRemoteURLMatchesNamespace once the hostname and the publisher domain
\* are known.
hostChecks(hostname, namespace, publisherDomain) ==
    IF hostname = "" THEN "URL must have a valid hostname"
    ELSE IF hostname = "localhost" \/ HasSuffix(hostname, ".localhost")
            \/ hostname = "127.0.0.1"
         THEN Nil
    ELSE IF publisherDomain = ""
         THEN "invalid namespace format: cannot extract domain from " \o namespace
    ELSE IF ~isValidHostForDomain(hostname, publisherDomain)
         THEN "remote URL host " \o hostname \o " does not match publisher domain "
              \o publisherDomain
    ELSE Nil

\* validateRemoteURLMatchesNamespace after url.Parse.
parsedURLMatchesNamespace(remoteURL, parsedURL, namespace) ==
    IF ~parsedURL.ok THEN "invalid URL format: " \o remoteURL
    ELSE hostChecks(parsedURL.hostname, namespace,
                    extractPublisherDomainFromNamespace(namespace))

validateRemoteURLMatchesNamespace(remoteURL, namespace) ==
    parsedURLMatchesNamespace(remoteURL, ParseURL(remoteURL), namespace)

validateRemoteNamespaceMatch(serverJSON) ==
    FirstError([i \in 1..Len(serverJSON.remotes) |->
        Wrap("remote URL " \o serverJSON.remotes[i].url \o " does not match namespace "
                 \o serverJSON.name \o ": ",
             validateRemoteURLMatchesNamespace(serverJSON.remotes[i].url,
                                               serverJSON.name))])

validateWebsiteURLNamespaceMatch(serverJSON) ==
    IF serverJSON.websiteUrl = "" THEN Nil
    ELSE Wrap("websiteUrl " \o serverJSON.websiteUrl \o " does not match namespace "
                  \o serverJSON.name \o ": ",
              validateRemoteURLMatchesNamespace(serverJSON.websiteUrl, serverJSON.name))

\* The schema gate at the head of ValidateServerJSON.
validateSchema(serverJSON) ==
    IF serverJSON.schema = "" THEN "$schema field is required"
    ELSE IF ~IsSupportedSchemaVersion(serverJSON.schema)
         THEN "schema version " \o serverJSON.schema \o " is not supported"
    ELSE Nil

\* The loop over serverJSON.Packages.
validatePackages(serverJSON) ==
    FirstError([i \in 1..Len(serverJSON.packages) |->
        validatePackageField(serverJSON.packages[i])])

\* The loop over serverJSON.Remotes.
validateRemotes(serverJSON) ==
    FirstError([i \in 1..Len(serverJSON.remotes) |->
        validateRemoteTransport(serverJSON.remotes[i])])

\* ValidateServerJSON with the remotes validated before the packages.
ValidateServerJSONRemotesFirst(serverJSON) ==
    FirstError(<<validateSchema(serverJSON), parseServerName(serverJSON),
                 validateVersion(serverJSON.version),
                 validateRepository(serverJSON.repository),
                 validateWebsiteURL(serverJSON.websiteUrl),
                 validateTitle(serverJSON.title), validateIcons(serverJSON.icons),
                 validateRemotes(serverJSON), validatePackages(serverJSON),
                 validateRemoteNamespaceMatch(serverJSON),
                 validateWebsiteURLNamespaceMatch(serverJSON)>>)

\* "if err := ...; err != nil { return err }" followed by the rest of the function.
OrElse(err, rest) == IF err # Nil THEN err ELSE rest

ValidateServerJSON(serverJSON) ==
    OrElse(validateSchema(serverJSON),
    OrElse(parseServerName(serverJSON),
    OrElse(validateVersion(serverJSON.version),
    OrElse(validateRepository(serverJSON.repository),
    OrElse(validateWebsiteURL(serverJSON.websiteUrl),
    OrElse(validateTitle(serverJSON.title),
    OrElse(validateIcons(serverJSON.icons),
    OrElse(validatePackages(serverJSON),
    OrElse(validateRemotes(serverJSON),
    OrElse(validateRemoteNamespaceMatch(serverJSON),
    OrElse(validateWebsiteURLNamespaceMatch(serverJSON),
           Nil)))))))))))

(***************************************************************************)
(* Manifests (apiv0.ServerJSON) used as inputs.                            *)
(***************************************************************************)
NoRepository == [present |-> FALSE, source |-> "", url |-> "", subfolder |-> ""]

GoodRepository ==
    [present |-> TRUE, source |-> "github",
     url |-> "https://github.com/example/server", subfolder |-> ""]

Arg(type, name, value, default, hint) ==
    [type |-> type, name |-> name, value |-> value, default |-> default,
     valueHint |-> hint]

Package(identifier, version, runtimeArgs, packageArgs, envNames, ttype, turl) ==
    [identifier |-> identifier, version |-> version,
     runtimeArguments |-> runtimeArgs, packageArguments |-> packageArgs,
     environmentVariables |-> [i \in 1..Len(envNames) |-> [name |-> envNames[i]]],
     transport |-> [type |-> ttype, url |-> turl]]

Transport(type, url) == [type |-> type, url |-> url]

Icon(src) == [src |-> src]

GoodPackage == Package("example-server", "1.0.0", <<>>, <<>>, <<>>, TransportTypeStdio, "")

GoodRemote == Transport(TransportTypeStreamableHTTP, "https://example.com/mcp")

GoodIcon == Icon("https://example.com/icon.png")

\* A manifest every stage accepts, with every optional field present.
BaseManifest ==
    [schema     |-> "https://static.modelcontextprotocol.io/schemas/2025-10-17/server.schema.json",
     name       |-> "com.example/server",
     version    |-> "1.0.0",
     repository |-> GoodRepository,
     websiteUrl |-> "https://example.com/docs",
     title      |-> "Example",
     icons      |-> <<GoodIcon>>,
     packages   |-> <<GoodPackage>>,
     remotes    |-> <<GoodRemote>>]

SchemaSamples ==
    {"", "https://static.modelcontextprotocol.io/schemas/2024-01-01/server.schema.json",
     "https://static.modelcontextprotocol.io/schemas/2025-09-29/server.schema.json"}

NameSamples ==
    {"", "server", "com.example/a/b", "/server", "com.example/-server",
     "-com.example/server", "example/server", "com.example.api/my_server",
     "io.localhost/server"}

VersionSamples == {"", "latest", "^1.2.3", "1.x", "2.0.1"}

RepositorySamples ==
    {NoRepository,
     [present |-> TRUE, source |-> "github", url |-> "https://evil.com/x", subfolder |-> ""],
     [present |-> TRUE, source |-> "github",
      url |-> "https://github.com/example/server", subfolder |-> "../up"]}

WebsiteSamples ==
    {"", "http://example.com/docs", "https://evil.com/docs", "example.com/docs",
     "https://localhost:8080/docs", "https:example.com", "HTTPS://docs.example.com/",
     "https://evilexample.com/"}

TitleSamples == {"", "   "}

IconsSamples ==
    {<<>>,
     <<Icon("http://example.com/icon.png")>>,
     <<GoodIcon, Icon("data:image/png;base64,AAAA")>>,
     <<Icon("icon.png"), Icon("http://example.com/icon.png")>>,
     <<Icon("https://cdn.evil.com/icon.png")>>}

PackagesSamples ==
    {<<>>,
     <<Package("example server", "1.0.0", <<>>, <<>>, <<>>, TransportTypeStdio, "")>>,
     <<GoodPackage,
       Package("example-server", "latest", <<>>, <<>>, <<>>, TransportTypeStdio, "")>>,
     <<Package("example-server", "1.0.0", <<>>, <<>>, <<>>, TransportTypeStdio,
               "https://example.com/mcp"),
       Package("example server", "1.0.0", <<>>, <<>>, <<>>, TransportTypeStdio, "")>>,
     <<Package("example-server", "1.0.0",
               <<Arg(ArgumentTypeNamed, "--port", "--port 8080", "", "")>>, <<>>, <<>>,
               TransportTypeStdio, "")>>,
     <<Package("example-server", "1.0.0",
               <<Arg(ArgumentTypeNamed, "--port", "8080", "", "port")>>, <<>>, <<>>,
               TransportTypeStreamableHTTP, "https://example.com/{port}")>>,
     <<Package("example-server", "1.0.0", <<>>,
               <<Arg(ArgumentTypePositional, "", "", "", "")>>, <<"HOST">>,
               TransportTypeSSE, "https://example.com/{port}")>>}

RemotesSamples ==
    {<<>>,
     <<Transport(TransportTypeSSE, "https://api.example.com/sse")>>,
     <<Transport(TransportTypeStreamableHTTP, "http://example.com/mcp")>>,
     <<Transport(TransportTypeStreamableHTTP, "https://evil.com/mcp")>>,
     <<GoodRemote, Transport(TransportTypeStdio, "")>>,
     <<Transport(TransportTypeStreamableHTTP, "https://evil.com/mcp"),
       Transport(TransportTypeStreamableHTTP, "")>>,
     <<GoodRemote, Transport(TransportTypeSSE, "https://evilexample.com/mcp")>>,
     <<Transport(TransportTypeStreamableHTTP, "https://localhost:8080/mcp")>>}

\* Every (field, value) by which an input manifest may differ from BaseManifest.
FieldOptions ==
    ({"schema"} \X SchemaSamples) \cup ({"name"} \X NameSamples)
    \cup ({"version"} \X VersionSamples) \cup ({"repository"} \X RepositorySamples)
    \cup ({"websiteUrl"} \X WebsiteSamples) \cup ({"title"} \X TitleSamples)
    \cup ({"icons"} \X IconsSamples) \cup ({"packages"} \X PackagesSamples)
    \cup ({"remotes"} \X RemotesSamples)

\* How many fields of an input manifest may differ from BaseManifest.
MaxOverrides == 2

RECURSIVE Variants(_)
Variants(k) ==
    IF k = 0 THEN {BaseManifest}
    ELSE Variants(k - 1)
         \cup {[mm EXCEPT ![fv[1]] = fv[2]] : mm \in Variants(k - 1), fv \in FieldOptions}

\* A manifest with no URL of its own: no website, icons, packages or remotes.
MinimalManifest ==
    [BaseManifest EXCEPT !.websiteUrl = "", !.icons = <<>>, !.packages = <<>>,
                         !.remotes = <<>>]

MinimalVariants ==
    {[MinimalManifest EXCEPT !.name = n, !.websiteUrl = w] :
        n \in NameSamples \cup {BaseManifest.name},
        w \in {"", "https://localhost:8080/docs", "https://example.com/docs"}}

ManifestInputs == Variants(MaxOverrides) \cup MinimalVariants

(***************************************************************************)
(* State.                                                                  *)
(*                                                                         *)
(* The import pipeline (one call of Service.ImportFromPath):               *)
(*   pc        where the call stands: "start", "paging" (top of the page   *)
(*             loop), "await" (a page request is in flight), "create" (the *)
(*             CreateServer loop), "done" (returned after the loop),       *)
(*             "failed" (returned the error of readSeedFile)               *)
(*   path, cursor, allRecords, servers, invalidServers, validationFailures,*)
(*   successfullyCreated, failedCreations: the variables of the code       *)
(*   result    the error ImportFromPath returned, "" while it runs         *)
(* What the collaborators saw (not read by the code):                      *)
(*   decoded      the records decoded from the source, in input order      *)
(*   accepted     the records ValidateServerJSON was run on and accepted   *)
(*   createCalls  the manifests passed to CreateServer, in call order      *)
(*   createErrs   for each call, whether CreateServer returned an error    *)
(*   lastUrl      the URL of the latest HTTP GET                           *)
(*   lastNext     metadata.nextCursor of the latest page response          *)
(*   respCursors  nextCursor of the first MaxFetch page responses          *)
(*   nfetch       HTTP GETs issued, counted up to MaxFetch                 *)
(*   fatalAt      nfetch when a read, fetch or decode failed, else -1      *)
(*   strategy     how readSeedFile got the data: "local" (os.ReadFile),     *)
(*                "file" (one fetchFromHTTP), "catalog" (the page loop),    *)
(*                "" before it chose                                        *)
(* The validators, applied as pure functions:                              *)
(*   vpc, m, verr          ValidateServerJSON(m) = verr once vpc = "done"  *)
(*   npc, nsUrl, nsName, nsErr                                             *)
(*             validateRemoteURLMatchesNamespace(nsUrl, nsName) = nsErr    *)
(*   cpc, call, cret       the function call.fn applied to call.arg gave    *)
(*             cret once cpc = "done"                                      *)
(* One call of ValidatePublishRequest:                                     *)
(*   ppc       "start", "packages" (the ownership loop), "done"            *)
(*   req, cfg  its arguments; req.publisherProvided stands for             *)
(*             req.Meta.PublisherProvided, an opaque JSON value known by   *)
(*             the length in bytes of its json.Marshal                     *)
(*   checked   packages the ownership loop has gone through                *)
(*   ownerCalls  the indexes ValidatePackage was called with, in call order*)
(*   perr      the error returned, "" while the call runs                  *)
(***************************************************************************)
VARIABLES pc, path, cursor, allRecords, servers, invalidServers, validationFailures,
          successfullyCreated, failedCreations, result,
          decoded, accepted, createCalls, createErrs,
          lastUrl, lastNext, respCursors, nfetch, fatalAt, validSeeds, strategy,
          vpc, m, verr, npc, nsUrl, nsName, nsErr,
          cpc, call, cret,
          ppc, req, cfg, checked, ownerCalls, perr

importVars == <<pc, path, cursor, allRecords, servers, invalidServers, validationFailures,
                successfullyCreated, failedCreations, result,
                decoded, accepted, createCalls, createErrs,
                lastUrl, lastNext, respCursors, nfetch, fatalAt, validSeeds, strategy>>

validateVars == <<vpc, m, verr>>

namespaceVars == <<npc, nsUrl, nsName, nsErr>>

callVars == <<cpc, call, cret>>

publishVars == <<ppc, req, cfg, checked, ownerCalls, perr>>

vars == <<importVars, validateVars, namespaceVars, callVars, publishVars>>

\* Records a seed file holds at most.
MaxRecords == 5

\* Records a catalog serves at most, over all its pages.
MaxCatalogRecords == 2

\* Page fetches counted and remembered one by one; later ones are counted as MaxFetch.
MaxFetch == 4

SeedA == BaseManifest

SeedB == [BaseManifest EXCEPT !.name = "com.example/other"]

SeedInvalid == [BaseManifest EXCEPT !.name = "com.example/broken", !.version = "latest"]

SeedManifests == {SeedA, SeedB, SeedInvalid}

CatalogManifests == {SeedA, SeedInvalid}

PathSamples ==
    {"data/seed.json", "https://example.com/seed.json",
     "https://registry.example.com/v0/servers",
     "https://registry.example.com/v0/servers?limit=1",
     "https://example.com/seed.json?from=/v0/servers",
     "https://registry.example.com", "backup/v0/servers/seed.json"}

CursorSamples == {"A", "B"}

SeqsUpTo(S, n) == UNION {[1..k -> S] : k \in 0..n}

IsHTTP(p) == HasPrefix(p, "http://") \/ HasPrefix(p, "https://")

\* readSeedFile's test for a registry API endpoint.
IsRegistryAPI(p) == HasSuffix(p, "/v0/servers") \/ Contains(p, "/v0/servers")

CreateError == "create failed"

IdleImport ==
    /\ pc = "idle" /\ path = "" /\ cursor = "" /\ allRecords = <<>> /\ servers = <<>>
    /\ invalidServers = <<>> /\ validationFailures = <<>>
    /\ successfullyCreated = <<>> /\ failedCreations = <<>> /\ result = ""
    /\ decoded = <<>> /\ accepted = {} /\ createCalls = <<>> /\ createErrs = <<>>
    /\ lastUrl = "" /\ lastNext = "" /\ respCursors = <<>> /\ nfetch = 0 /\ fatalAt = -1
    /\ validSeeds = {} /\ strategy = ""

IdleValidate == vpc = "idle" /\ m = BaseManifest /\ verr = Nil

IdleNamespace == npc = "idle" /\ nsUrl = "" /\ nsName = "" /\ nsErr = Nil

IdleCall == cpc = "idle" /\ call = [fn |-> "", arg |-> ""] /\ cret = Nil

IdlePublish ==
    /\ ppc = "idle"
    /\ req = [server |-> BaseManifest, publisherProvided |-> [present |-> FALSE, bytes |-> 0]]
    /\ cfg = [EnableRegistryValidation |-> FALSE]
    /\ checked = 0 /\ ownerCalls = <<>> /\ perr = ""

(***************************************************************************)
(* internal/importer/importer.go                                           *)
(***************************************************************************)
\* The seed manifests ValidateServerJSON accepts, as an enumerated set. The
\* variable validSeeds holds it unchanged through every behaviour: it is the
\* verdict the properties compare the importer's calls against.
ValidSeeds ==
    CHOOSE S \in SUBSET SeedManifests :
        \A r \in SeedManifests : r \in S <=> ValidateServerJSON(r) = Nil

Init ==
    /\ pc = "start"
    /\ path \in PathSamples
    /\ cursor = "" /\ allRecords = <<>> /\ servers = <<>>
    /\ invalidServers = <<>> /\ validationFailures = <<>>
    /\ successfullyCreated = <<>> /\ failedCreations = <<>> /\ result = ""
    /\ decoded = <<>> /\ accepted = {} /\ createCalls = <<>> /\ createErrs = <<>>
    /\ lastUrl = "" /\ lastNext = "" /\ respCursors = <<>> /\ nfetch = 0 /\ fatalAt = -1
    /\ validSeeds = ValidSeeds /\ strategy = ""
    /\ IdleValidate /\ IdleNamespace /\ IdleCall /\ IdlePublish

CountFetch(n) == IF n < MaxFetch THEN n + 1 ELSE MaxFetch

Remember(log, x) == IF Len(log) < MaxFetch THEN Append(log, x) ELSE log

\* The result of validators.ValidateServerJSON for each decoded record.
ValidationErrors(serverResponses) ==
    [i \in 1..Len(serverResponses) |-> ValidateServerJSON(serverResponses[i])]

\* The elements of seq at the positions where keep holds, in order.
RECURSIVE SubseqWhere(_, _)
SubseqWhere(seq, keep) ==
    IF Len(seq) = 0 THEN <<>>
    ELSE (IF Head(keep) THEN <<Head(seq)>> ELSE <<>>) \o SubseqWhere(Tail(seq), Tail(keep))

\* ValidRecordsOf with every kept pointer referring to one shared loop variable,
\* which holds the last record when the loop ends.
ValidRecordsAliased(serverResponses, errs) ==
    [i \in 1..Len(SubseqWhere(serverResponses, [j \in 1..Len(errs) |-> errs[j] = Nil])) |->
        serverResponses[Len(serverResponses)]]

\* The validation loop of readSeedFile: the records kept, in order. Each kept
\* pointer refers to its own iteration's copy of the record (Go 1.22 loop variables).
ValidRecordsOf(serverResponses, errs) ==
    SubseqWhere(serverResponses, [i \in 1..Len(errs) |-> errs[i] = Nil])

InvalidServersOf(serverResponses, errs) ==
    SubseqWhere([i \in 1..Len(serverResponses) |-> serverResponses[i].name],
                [i \in 1..Len(errs) |-> errs[i] # Nil])

ValidationFailuresOf(serverResponses, errs) ==
    SubseqWhere([i \in 1..Len(serverResponses) |->
                    "Server '" \o serverResponses[i].name \o "': " \o errs[i]],
                [i \in 1..Len(errs) |-> errs[i] # Nil])

\* ReadFailed with the error dropped: the records read so far are imported.
ReadFailedImportsPartial(why, fetched) ==
    /\ pc' = "create"
    /\ servers' = allRecords
    /\ fatalAt' = fetched
    /\ UNCHANGED <<cursor, allRecords, invalidServers, validationFailures, result,
                   successfullyCreated, failedCreations, decoded, accepted,
                   createCalls, createErrs, lastNext, respCursors>>

\* readSeedFile returning an error: ImportFromPath returns it, wrapped.
ReadFailed(why, fetched) ==
    /\ pc' = "failed"
    /\ result' = "failed to read seed data: " \o why
    /\ fatalAt' = fetched
    /\ UNCHANGED <<cursor, allRecords, servers, invalidServers, validationFailures,
                   successfullyCreated, failedCreations, decoded, accepted,
                   createCalls, createErrs, lastNext, respCursors>>

\* readSeedFile on the bytes of a file source: decode, then validate each record.
ParseSeed(outcome, fetched) ==
    IF outcome.kind = "error"
    THEN ReadFailed("failed to read seed data from " \o path, fetched)
    ELSE IF outcome.kind = "badjson"
    THEN ReadFailed("failed to parse seed data as ServerJSON array format", fetched)
    ELSE /\ pc' = "create"
         /\ decoded' = outcome.records
         /\ \E errs \in {ValidationErrors(outcome.records)} :
                /\ servers' = ValidRecordsOf(outcome.records, errs)
                /\ invalidServers' = InvalidServersOf(outcome.records, errs)
                /\ validationFailures' = ValidationFailuresOf(outcome.records, errs)
                /\ accepted' = {outcome.records[i] : i \in {j \in 1..Len(errs) :
                                                            errs[j] = Nil}}
         /\ UNCHANGED <<cursor, allRecords, successfullyCreated, failedCreations, result,
                        createCalls, createErrs, lastNext, respCursors, fatalAt>>

FileOutcomes ==
    {[kind |-> "error", records |-> <<>>], [kind |-> "badjson", records |-> <<>>]}
    \cup {[kind |-> "array", records |-> rs] : rs \in SeqsUpTo(SeedManifests, MaxRecords)}

\* readSeedFile, local file path: os.ReadFile, decode, validate.
ReadLocalFile ==
    /\ pc = "start"
    /\ ~IsHTTP(path)
    /\ \E outcome \in FileOutcomes :
           /\ nfetch' = nfetch
           /\ lastUrl' = lastUrl
           /\ ParseSeed(outcome, nfetch)
    /\ strategy' = "local"
    /\ UNCHANGED <<path, validSeeds, validateVars, namespaceVars, callVars, publishVars>>

\* readSeedFile, direct file URL: fetchFromHTTP, decode, validate.
FetchSeedFile ==
    /\ pc = "start"
    /\ IsHTTP(path) /\ ~IsRegistryAPI(path)
    /\ \E outcome \in FileOutcomes :
           /\ nfetch' = CountFetch(nfetch)
           /\ lastUrl' = path
           /\ ParseSeed(outcome, CountFetch(nfetch))
    /\ strategy' = "file"
    /\ UNCHANGED <<path, validSeeds, validateVars, namespaceVars, callVars, publishVars>>

\* PageURL without the test for a query already present in the base URL.
PageURLAlwaysQuestionMark(baseURL, cur) ==
    IF cur # "" THEN baseURL \o "?cursor=" \o cur ELSE baseURL

\* The URL fetchFromRegistryAPI builds for the next page.
PageURL(baseURL, cur) ==
    IF cur # ""
    THEN IF Contains(baseURL, "?") THEN baseURL \o "&cursor=" \o cur
         ELSE baseURL \o "?cursor=" \o cur
    ELSE baseURL

\* fetchFromRegistryAPI, top of the loop: build the URL and issue the GET.
SendPageRequest ==
    /\ pc \in {"start", "paging"}
    /\ IsHTTP(path) /\ IsRegistryAPI(path)
    /\ pc' = "await"
    /\ lastUrl' = PageURL(path, cursor)
    /\ nfetch' = CountFetch(nfetch)
    /\ strategy' = "catalog"
    /\ UNCHANGED <<path, validSeeds, cursor, allRecords, servers, invalidServers, validationFailures,
                   successfullyCreated, failedCreations, result, decoded, accepted,
                   createCalls, createErrs, lastNext, respCursors, fatalAt,
                   validateVars, namespaceVars, callVars, publishVars>>

PageOutcomes ==
    {[kind |-> "error", servers |-> <<>>, hasMetadata |-> FALSE, nextCursor |-> ""],
     [kind |-> "badjson", servers |-> <<>>, hasMetadata |-> FALSE, nextCursor |-> ""]}
    \cup {[kind |-> "page", servers |-> rs, hasMetadata |-> FALSE, nextCursor |-> ""] :
              rs \in SeqsUpTo(CatalogManifests, MaxCatalogRecords)}
    \cup {[kind |-> "page", servers |-> rs, hasMetadata |-> TRUE, nextCursor |-> c] :
              rs \in SeqsUpTo(CatalogManifests, MaxCatalogRecords),
              c \in CursorSamples \cup {""}}

\* fetchFromRegistryAPI, rest of the loop body: the response, decode, accumulate,
\* and either leave the loop (readSeedFile returns allRecords) or go round again.
ReceivePage ==
    /\ pc = "await"
    /\ \E outcome \in PageOutcomes :
           /\ Len(allRecords) + Len(outcome.servers) <= MaxCatalogRecords
           /\ IF outcome.kind = "error"
              THEN /\ ReadFailed("failed to fetch page from registry API", nfetch)
                   /\ nfetch' = nfetch
              ELSE IF outcome.kind = "badjson"
              THEN /\ ReadFailed("failed to parse registry API response", nfetch)
                   /\ nfetch' = nfetch
              ELSE /\ allRecords' = allRecords \o outcome.servers
                   /\ decoded' = decoded \o outcome.servers
                   /\ lastNext' = outcome.nextCursor
                   /\ respCursors' = Remember(respCursors, outcome.nextCursor)
                   /\ IF ~outcome.hasMetadata \/ outcome.nextCursor = ""
                      THEN /\ pc' = "create"
                           /\ servers' = allRecords'
                           /\ cursor' = cursor
                      ELSE /\ pc' = "paging"
                           /\ cursor' = outcome.nextCursor
                           /\ servers' = servers
                   /\ UNCHANGED <<invalidServers, validationFailures, successfullyCreated,
                                  failedCreations, result, accepted, createCalls,
                                  createErrs, nfetch, fatalAt>>
    /\ UNCHANGED <<path, validSeeds, strategy, lastUrl, validateVars, namespaceVars, callVars, publishVars>>

\* ImportFromPath, one round of the loop over servers: a CreateServer call.
CreateServer ==
    /\ pc = "create"
    /\ Len(createCalls) < Len(servers)
    /\ LET server == servers[Len(createCalls) + 1]
       IN  /\ createCalls' = Append(createCalls, server)
           /\ \E failed \in BOOLEAN :
                  /\ createErrs' = Append(createErrs, failed)
                  /\ IF failed
                     THEN /\ failedCreations' =
                                 Append(failedCreations, server.name \o ": " \o CreateError)
                          /\ successfullyCreated' = successfullyCreated
                     ELSE /\ successfullyCreated' = Append(successfullyCreated, server.name)
                          /\ failedCreations' = failedCreations
    /\ UNCHANGED <<pc, path, validSeeds, strategy, cursor, allRecords, servers, invalidServers,
                   validationFailures, result, decoded, accepted,
                   lastUrl, lastNext, respCursors, nfetch, fatalAt,
                   validateVars, namespaceVars, callVars, publishVars>>

\* ImportResult with the test for failures off by one.
ImportResultOffByOne(failures) ==
    IF Len(failures) > 1
    THEN "failed to import " \o Itoa(Len(failures)) \o " servers"
    ELSE Nil

\* The error ImportFromPath returns after the loop.
ImportResult(failures) ==
    IF Len(failures) > 0
    THEN "failed to import " \o Itoa(Len(failures)) \o " servers"
    ELSE Nil

\* ImportFromPath, after the loop: report and return.
Report ==
    /\ pc = "create"
    /\ Len(createCalls) = Len(servers)
    /\ pc' = "done"
    /\ result' = ImportResult(failedCreations)
    /\ UNCHANGED <<path, validSeeds, strategy, cursor, allRecords, servers, invalidServers, validationFailures,
                   successfullyCreated, failedCreations, decoded, accepted,
                   createCalls, createErrs, lastUrl, lastNext, respCursors, nfetch,
                   fatalAt, validateVars, namespaceVars, callVars, publishVars>>

Next == ReadLocalFile \/ FetchSeedFile \/ SendPageRequest \/ ReceivePage
        \/ CreateServer \/ Report

Spec == Init /\ [][Next]_vars

\* Every fetch returns and the context is never cancelled: a step is taken
\* whenever one is possible.
FairSpec == Spec /\ WF_vars(Next)

(***************************************************************************)
(* ValidateServerJSON applied to an input manifest.                        *)
(***************************************************************************)
ValidateInit ==
    /\ IdleImport /\ IdleNamespace /\ IdleCall /\ IdlePublish
    /\ vpc = "input" /\ m \in ManifestInputs /\ verr = Nil

\* Validate with the labels of the namespace reversed in place in the manifest.
ValidateReversingNamespace ==
    /\ vpc = "input"
    /\ vpc' = "done"
    /\ verr' = ValidateServerJSON(m)
    /\ m' = [m EXCEPT !.name = extractPublisherDomainFromNamespace(m.name)]
    /\ UNCHANGED <<importVars, namespaceVars, callVars, publishVars>>

Validate ==
    /\ vpc = "input"
    /\ vpc' = "done"
    /\ verr' = ValidateServerJSON(m)
    /\ m' = m
    /\ UNCHANGED <<importVars, namespaceVars, callVars, publishVars>>

ValidateNext == Validate

ValidateSpec == ValidateInit /\ [][ValidateNext]_vars

(***************************************************************************)
(* validateRemoteURLMatchesNamespace applied to a URL and a server name.   *)
(***************************************************************************)
NamespaceURLSamples ==
    {"https://example.com/mcp", "https://api.example.com/mcp",
     "https://localhost:8080/mcp", "https://dev.localhost/mcp", "http://127.0.0.1:3000/",
     "https://evil.com/mcp", "https://evilexample.com/mcp", "https://example.com.evil.com/",
     "https://user@example.com:443/mcp", "https://EXAMPLE.com/mcp",
     "https://api.example.org/", "https:example.com", "https://exa mple.com/", ""}

NamespaceNameSamples ==
    {"com.example/server", "org.example.api/server", "io.github.user/tool",
     "example/server", "com.example", "localhost/server", "com.evil/server", "a.b.c.d/e"}

NamespaceInit ==
    /\ IdleImport /\ IdleValidate /\ IdleCall /\ IdlePublish
    /\ npc = "input" /\ nsUrl \in NamespaceURLSamples /\ nsName \in NamespaceNameSamples
    /\ nsErr = Nil

CheckNamespace ==
    /\ npc = "input"
    /\ npc' = "done"
    /\ nsErr' = validateRemoteURLMatchesNamespace(nsUrl, nsName)
    /\ UNCHANGED <<nsUrl, nsName, importVars, validateVars, callVars, publishVars>>

NamespaceNext == CheckNamespace

NamespaceSpec == NamespaceInit /\ [][NamespaceNext]_vars

(***************************************************************************)
(* The validators' helper functions, each applied to its own inputs.       *)
(***************************************************************************)
VersionNumbers == {"0", "1", "12"}

\* Dot-separated numbers a version input has at most.
MaxVersionSegments == 4

\* The versions of exactly k dot-separated numbers.
RECURSIVE DottedVersions(_)
DottedVersions(k) ==
    IF k = 1 THEN VersionNumbers
    ELSE {v \o "." \o n : v \in DottedVersions(k - 1), n \in VersionNumbers}

VersionInputs ==
    UNION {DottedVersions(k) : k \in 1..MaxVersionSegments}
    \cup {"", "latest", "^1.2.3", "~1.2.3", ">=1.0.0", "1.2.*", "1.x", "1 - 2",
          "1.2 || 1.3", " 1.2.3 ", "v1.2.3", "1.X.0", "*",
          "1.2.3-next", "1.0.0-linux", "1.2.3-beta", "1.2.3.4-next", "1.2.x-beta",
          "1.2-X1"}

TransportArgumentSamples ==
    {<<>>,
     <<Arg(ArgumentTypeNamed, "port", "", "", "")>>,
     <<Arg(ArgumentTypeNamed, "--port", "", "", "port")>>,
     <<Arg(ArgumentTypePositional, "", "", "", "path")>>}

\* Packages that differ in their transport and in the variables they declare.
TransportInputs ==
    {Package("example-server", "1.0.0", rt, pk, env, ttype, turl) :
        rt \in TransportArgumentSamples, pk \in TransportArgumentSamples,
        env \in {<<>>, <<"port">>},
        ttype \in {TransportTypeStdio, TransportTypeStreamableHTTP, TransportTypeSSE,
                   "websocket", ""},
        turl \in {"", "https://example.com/mcp", "https://example.com/{port}",
                  "http://localhost:{port}/{path}", "not a url"}}

NamespacePartSamples ==
    {"", "c", "com.example", "com-example.api2", "-com.example", "com.example-",
     "com_example", "com..example", "9"}

NamePartSamples ==
    {"", "x", "server", "my_server", "my.server-2", "_server", "server_", "my server", "7"}

NameInputs ==
    {[name |-> ns \o "/" \o np] : ns \in NamespacePartSamples, np \in NamePartSamples}
    \cup {[name |-> n] : n \in {"", "server", "com.example/a/b", "a//b", "a/b/"}}

CallInputs ==
    {[fn |-> "validateVersion", arg |-> v] : v \in VersionInputs}
    \cup {[fn |-> "validatePackageTransport", arg |-> pkg] : pkg \in TransportInputs}
    \cup {[fn |-> "parseServerName", arg |-> n] : n \in NameInputs}

CallInit ==
    /\ IdleImport /\ IdleValidate /\ IdleNamespace /\ IdlePublish
    /\ cpc = "input" /\ call \in CallInputs /\ cret = Nil

\* One call; the package transport is validated as validatePackageField does it.
Call ==
    /\ cpc = "input"
    /\ cpc' = "done"
    /\ cret' = IF call.fn = "validateVersion" THEN validateVersion(call.arg)
               ELSE IF call.fn = "validatePackageTransport"
               THEN validatePackageTransport(call.arg.transport,
                                             collectAvailableVariables(call.arg))
               ELSE parseServerName(call.arg)
    /\ UNCHANGED <<call, importVars, validateVars, namespaceVars, publishVars>>

CallNext == Call

CallSpec == CallInit /\ [][CallNext]_vars

(***************************************************************************)
(* ValidatePublishRequest.                                                 *)
(***************************************************************************)
maxExtensionSize == 4096

\* validatePublisherExtensions rejecting an extension of exactly the limit too.
validatePublisherExtensionsInclusive(r) ==
    IF r.publisherProvided.present /\ r.publisherProvided.bytes >= maxExtensionSize
    THEN "_meta.io.modelcontextprotocol.registry/publisher-provided extension exceeds 4KB limit ("
         \o Itoa(r.publisherProvided.bytes) \o " bytes)"
    ELSE Nil

\* json.Marshal of a value decoded from JSON does not fail: only the size is tested.
validatePublisherExtensions(r) ==
    IF r.publisherProvided.present /\ r.publisherProvided.bytes > maxExtensionSize
    THEN "_meta.io.modelcontextprotocol.registry/publisher-provided extension exceeds 4KB limit ("
         \o Itoa(r.publisherProvided.bytes) \o " bytes)"
    ELSE Nil

\* Packages a publish request holds at most.
MaxPackages == 3

PackageNamed(i) ==
    Package("pkg-" \o Itoa(i), "1.0.0", <<>>, <<>>, <<>>, TransportTypeStdio, "")

PackageLists == {[i \in 1..k |-> PackageNamed(i)] : k \in 0..MaxPackages}

ExtensionSamples ==
    {[present |-> FALSE, bytes |-> 0]}
    \cup {[present |-> TRUE, bytes |-> n] :
             n \in {2, maxExtensionSize - 1, maxExtensionSize, maxExtensionSize + 1}}

PublishRequests ==
    {[server |-> [BaseManifest EXCEPT !.packages = ps, !.version = v],
      publisherProvided |-> ext] :
        ps \in PackageLists, v \in {"1.0.0", "latest"}, ext \in ExtensionSamples}

OwnershipError == "ownership violation"

PublishInit ==
    /\ IdleImport /\ IdleValidate /\ IdleNamespace /\ IdleCall
    /\ ppc = "start" /\ req \in PublishRequests
    /\ cfg \in {[EnableRegistryValidation |-> b] : b \in BOOLEAN}
    /\ checked = 0 /\ ownerCalls = <<>> /\ perr = ""

\* ValidatePublishRequest up to the ownership loop.
PublishStart ==
    /\ ppc = "start"
    /\ \E err \in {OrElse(validatePublisherExtensions(req), ValidateServerJSON(req.server))} :
           IF err # Nil THEN ppc' = "done" /\ perr' = err
           ELSE IF cfg.EnableRegistryValidation THEN ppc' = "packages" /\ perr' = perr
           ELSE ppc' = "done" /\ perr' = Nil
    /\ UNCHANGED <<req, cfg, checked, ownerCalls,
                   importVars, validateVars, namespaceVars, callVars>>

\* One round of the ownership loop: the call of the collaborator ValidatePackage.
ValidatePackage ==
    /\ ppc = "packages"
    /\ checked < Len(req.server.packages)
    /\ \E failed \in BOOLEAN :
           /\ ownerCalls' = Append(ownerCalls, [index |-> checked, failed |-> failed])
           /\ IF failed
              THEN /\ ppc' = "done"
                   /\ perr' = "registry validation failed for package " \o Itoa(checked)
                              \o " (" \o req.server.packages[checked + 1].identifier \o "): "
                              \o OwnershipError
                   /\ checked' = checked
              ELSE /\ checked' = checked + 1
                   /\ UNCHANGED <<ppc, perr>>
    /\ UNCHANGED <<req, cfg, importVars, validateVars, namespaceVars, callVars>>

\* ValidatePublishRequest, after the ownership loop.
PublishReturn ==
    /\ ppc = "packages"
    /\ checked = Len(req.server.packages)
    /\ ppc' = "done"
    /\ perr' = Nil
    /\ UNCHANGED <<req, cfg, checked, ownerCalls,
                   importVars, validateVars, namespaceVars, callVars>>

PublishNext == PublishStart \/ ValidatePackage \/ PublishReturn

PublishSpec == PublishInit /\ [][PublishNext]_vars

(***************************************************************************)
(* Properties.                                                             *)
(***************************************************************************)
IsValidSeed(r) == r \in validSeeds

IsInvalidSeed(r) == r \notin validSeeds

NamesOf(records) == [i \in 1..Len(records) |-> records[i].name]

IsCatalogSource == IsHTTP(path) /\ IsRegistryAPI(path)

\* C1: every manifest passed to CreateServer was run through ValidateServerJSON
\* before and accepted, whatever the source kind; a record that fails validation
\* is never passed to CreateServer.
C1_CreatedOnlyAfterValidation ==
    \A i \in 1..Len(createCalls) :
        createCalls[i] \in accepted /\ IsValidSeed(createCalls[i])

\* C2: once the source is fetched and decoded, ImportFromPath returns nil exactly
\* when no CreateServer call returned an error; invalid records never fail the call.
C2_SuccessIffNoCreateError ==
    pc = "done" => ((result = Nil) <=> (\A i \in 1..Len(createErrs) : ~createErrs[i]))

C2_Witness ==
    /\ pc = "done"
    /\ Len(invalidServers) > 0
    /\ Len(createErrs) = 2 /\ ~createErrs[1] /\ createErrs[2]
    /\ result # Nil

\* C3: the CreateServer calls of one import are the valid decoded records, each
\* once, in input order (page order, then in-page order), each call carrying its
\* own record, and a failed call does not stop the later ones.
C3_CreateCallsAreValidRecordsInOrder ==
    pc = "done" => createCalls = SelectSeq(decoded, IsValidSeed)

\* C4: a failed read or fetch, an undecodable file, or a failing catalog page
\* (also after the first) makes ImportFromPath return an error with no
\* CreateServer call and no fetch after the failing one.
C4_BatchFatalAborts ==
    fatalAt # -1 =>
        /\ pc = "failed"
        /\ result \notin {"", Nil}
        /\ createCalls = <<>>
        /\ nfetch = fatalAt

C4_Witness ==
    /\ fatalAt = 2
    /\ IsCatalogSource
    /\ decoded # <<>>
    /\ pc = "failed"

\* C5: the first page request is the source URL with no cursor added; every later
\* request is the source URL plus one cursor parameter holding the nextCursor of the
\* response just before it, unchanged; no request follows a response without a
\* cursor, so the number of fetches is the number of responses up to the first one
\* without a cursor: cursors A, B, "" make exactly 3 fetches.
C5_CursorProtocol ==
    /\ (pc = "await" /\ nfetch = 1) => lastUrl = path
    /\ (pc = "await" /\ nfetch > 1) =>
           /\ lastNext # ""
           /\ lastUrl = path \o (IF Contains(path, "?") THEN "&" ELSE "?")
                             \o "cursor=" \o lastNext
    /\ (IsCatalogSource /\ pc \in {"create", "done"} /\ Len(respCursors) < MaxFetch) =>
           /\ nfetch = Len(respCursors)
           /\ respCursors[Len(respCursors)] = ""
           /\ \A i \in 1..(Len(respCursors) - 1) : respCursors[i] # ""
    /\ (IsCatalogSource /\ pc \in {"create", "done"} /\ respCursors = <<"A", "B", "">>) =>
           nfetch = 3

C5_Witness ==
    /\ pc = "create"
    /\ respCursors = <<"A", "B", "">>
    /\ nfetch = 3
    /\ lastUrl = "https://registry.example.com/v0/servers?limit=1&cursor=B"

\* C6: when every fetch returns and the context is never cancelled, the page loop
\* of fetchFromRegistryAPI eventually returns, also when every response carries a
\* non-empty nextCursor.
C6_PageLoopReturns == <>(pc \notin {"start", "paging", "await"})

\* C7: for a file source the finished import puts every decoded record in exactly
\* one of the groups invalid, created, create-failed: the three counts sum to the
\* number of records and each group lists its records' names in input order.
C7_FileReportPartition ==
    (pc = "done" /\ ~IsCatalogSource) =>
        LET valid == SelectSeq(decoded, IsValidSeed)
            bad   == SelectSeq(decoded, IsInvalidSeed)
        IN  /\ Len(invalidServers) + Len(successfullyCreated) + Len(failedCreations)
                   = Len(decoded)
            /\ invalidServers = NamesOf(bad)
            /\ Len(validationFailures) = Len(bad)
            /\ \A i \in 1..Len(bad) :
                   HasPrefix(validationFailures[i], "Server '" \o bad[i].name \o "': ")
            /\ Len(createErrs) = Len(valid)
            /\ successfullyCreated
                   = SubseqWhere(NamesOf(valid), [i \in 1..Len(valid) |-> ~createErrs[i]])
            /\ failedCreations
                   = SubseqWhere([i \in 1..Len(valid) |-> valid[i].name \o ": " \o CreateError],
                                 createErrs)
            /\ (result # Nil) <=> (Len(failedCreations) > 0)

C7_Witness ==
    /\ pc = "done" /\ ~IsCatalogSource
    /\ Len(decoded) = 5
    /\ Len(invalidServers) = 2 /\ Len(successfullyCreated) = 2 /\ Len(failedCreations) = 1
    /\ result # Nil

\* The error of every check of ValidateServerJSON on its own, in the order schema,
\* name, version, repository, website URL, title, each icon, each package, each
\* remote, namespace of each remote, namespace of the website URL.
StageErrors(mm) ==
    <<validateSchema(mm), parseServerName(mm), validateVersion(mm.version),
      validateRepository(mm.repository), validateWebsiteURL(mm.websiteUrl),
      validateTitle(mm.title)>>
    \o [i \in 1..Len(mm.icons) |->
           Wrap("invalid icon at index " \o Itoa(i - 1) \o ": ", validateIcon(mm.icons[i]))]
    \o [i \in 1..Len(mm.packages) |-> validatePackageField(mm.packages[i])]
    \o [i \in 1..Len(mm.remotes) |-> validateRemoteTransport(mm.remotes[i])]
    \o [i \in 1..Len(mm.remotes) |->
           Wrap("remote URL " \o mm.remotes[i].url \o " does not match namespace "
                    \o mm.name \o ": ",
                validateRemoteURLMatchesNamespace(mm.remotes[i].url, mm.name))]
    \o <<validateWebsiteURLNamespaceMatch(mm)>>

FailingStages(errs) == {i \in 1..Len(errs) : errs[i] # Nil}

\* C8: ValidateServerJSON returns the error of the earliest failing check (and of
\* the earliest failing element within the packages and the remotes), and accepts
\* the manifest exactly when no check fails.
C8_FirstFailingStageWins ==
    vpc = "done" =>
        LET errs == StageErrors(m)
        IN  /\ (verr = Nil) <=> (FailingStages(errs) = {})
            /\ \A i \in FailingStages(errs) :
                   (\A j \in FailingStages(errs) : i <= j) => verr = errs[i]

C8_Witness ==
    /\ vpc = "done"
    /\ Len(m.packages) = 2
    /\ validatePackageField(m.packages[1]) # Nil
    /\ validatePackageField(m.packages[2]) # Nil
    /\ validateRemotes(m) # Nil
    /\ verr = validatePackageField(m.packages[1])
    /\ verr # validatePackageField(m.packages[2])

\* The namespace of a server name and its labels, as text.
NamespaceLabels(name) == Split(Before(name, Index(name, "/")), ".")

C9_Passes(hostname, domain) ==
    \/ hostname = "localhost"
    \/ HasSuffix(hostname, ".localhost")
    \/ hostname = "127.0.0.1"
    \/ hostname = domain
    \/ HasSuffix(hostname, "." \o domain)

\* C9: for a namespace of at least two labels and a URL with a hostname, the
\* namespace check passes exactly when the hostname is localhost, *.localhost,
\* 127.0.0.1, the reversed namespace, or a subdomain of it; otherwise it fails
\* naming the host and the publisher domain.
C9_NamespaceOwnership ==
    (npc = "done" /\ Len(NamespaceLabels(nsName)) >= 2
        /\ ParseURL(nsUrl).ok /\ ParseURL(nsUrl).hostname # "") =>
        LET hostname == ParseURL(nsUrl).hostname
            domain   == Join(Reverse(NamespaceLabels(nsName)), ".")
        IN  /\ (nsErr = Nil) <=> C9_Passes(hostname, domain)
            /\ nsErr # Nil =>
                   nsErr = "remote URL host " \o hostname
                           \o " does not match publisher domain " \o domain
            /\ (nsName = "com.example/server"
                   /\ nsUrl \in {"https://example.com/mcp", "https://api.example.com/mcp"})
                   => nsErr = Nil
            /\ nsUrl = "https://localhost:8080/mcp" => nsErr = Nil
            /\ (nsName = "com.example/server"
                   /\ nsUrl \in {"https://evil.com/mcp", "https://evilexample.com/mcp"})
                   => nsErr # Nil

C9_Witness ==
    /\ npc = "done"
    /\ nsName = "com.example/server"
    /\ nsUrl = "https://evilexample.com/mcp"
    /\ nsErr = "remote URL host evilexample.com does not match publisher domain example.com"

UsesHTTPS(rawURL) == HasPrefix(ToLower(rawURL), "https:")

\* C10: in every accepted manifest a non-empty websiteUrl, every icon src and every
\* remote url uses the https scheme; a remote http://example.com/mcp under
\* namespace com.example is rejected.
C10_AcceptedURLsAreHTTPS ==
    vpc = "done" =>
        /\ verr = Nil =>
               /\ m.websiteUrl # "" => UsesHTTPS(m.websiteUrl)
               /\ \A i \in 1..Len(m.icons) : UsesHTTPS(m.icons[i].src)
               /\ \A i \in 1..Len(m.remotes) : UsesHTTPS(m.remotes[i].url)
        /\ (/\ Before(m.name, Index(m.name, "/")) = "com.example"
            /\ \E i \in 1..Len(m.remotes) : m.remotes[i].url = "http://example.com/mcp")
               => verr # Nil

C10_Witness ==
    /\ vpc = "done" /\ verr = Nil
    /\ m.websiteUrl = "HTTPS://docs.example.com/"
    /\ Len(m.icons) > 0 /\ Len(m.remotes) > 0

PublisherDomain(name) == Join(Reverse(NamespaceLabels(name)), ".")

\* The externally-reachable URLs of a manifest: website, icons, remotes.
ExternalURLs(mm) ==
    (IF mm.websiteUrl = "" THEN {} ELSE {mm.websiteUrl})
    \cup {mm.icons[i].src : i \in 1..Len(mm.icons)}
    \cup {mm.remotes[i].url : i \in 1..Len(mm.remotes)}

\* C11: in every accepted manifest the hostname of every externally-reachable
\* URL, icon src included, is the publisher domain of the namespace or a subdomain
\* of it, or is localhost, *.localhost or 127.0.0.1.
C11_AcceptedHostsBelongToPublisher ==
    (vpc = "done" /\ verr = Nil) =>
        \A u \in ExternalURLs(m) :
            C9_Passes(ParseURL(u).hostname, PublisherDomain(m.name))

\* C12 as stated: a name with two or more '/' makes ValidateServerJSON fail with
\* ErrMultipleSlashesInServerName, whatever the other fields are.
C12_AlwaysNameMultipleSlashes ==
    (vpc = "done" /\ Count(m.name, "/") >= 2) => verr = ErrMultipleSlashesInServerName

\* C12, amended: a name with two or more '/' always makes ValidateServerJSON fail;
\* the error is ErrMultipleSlashesInServerName when $schema is present and
\* supported, whatever the fields after the name are, and the schema error otherwise.
C12_MultipleSlashesAfterSchema ==
    (vpc = "done" /\ Count(m.name, "/") >= 2) =>
        /\ verr # Nil
        /\ IF m.schema # "" /\ IsSupportedSchemaVersion(m.schema)
           THEN verr = ErrMultipleSlashesInServerName
           ELSE verr = validateSchema(m)

C12_Witness ==
    /\ vpc = "done"
    /\ m.name = "com.example/a/b"
    /\ m.version = "latest"
    /\ verr = ErrMultipleSlashesInServerName

\* One to four dot-separated non-empty runs of digits.
IsPlainVersion(v) ==
    LET parts == Split(v, ".")
    IN  /\ Len(parts) \in 1..4
        /\ \A i \in 1..Len(parts) :
               parts[i] # "" /\ AllIn(parts[i], 1, Len(parts[i]) + 1, Digit)

\* C13: validateVersion accepts the empty string and every version of one to four
\* dot-separated decimal numbers, rejects "latest" as reserved and rejects ^1.2.3,
\* ~1.2.3, >=1.0.0, 1.2.*, 1.x, "1 - 2" and "1.2 || 1.3" as ranges.
C13_VersionValidation ==
    (cpc = "done" /\ call.fn = "validateVersion") =>
        /\ (call.arg = "" \/ IsPlainVersion(call.arg)) => cret = Nil
        /\ call.arg = "latest" => cret = ErrReservedVersionString
        /\ call.arg \in {"^1.2.3", "~1.2.3", ">=1.0.0", "1.2.*", "1.x", "1 - 2", "1.2 || 1.3"}
               => HasPrefix(cret, ErrVersionLooksLikeRange)

C13_Witness ==
    /\ cpc = "done" /\ call.fn = "validateVersion"
    /\ call.arg = "1.12.0.1"
    /\ cret = Nil

\* The variables a package declares: environment-variable names, names and value
\* hints of its runtime and package arguments.
DeclaredVariables(pkg) ==
    {pkg.environmentVariables[i].name : i \in 1..Len(pkg.environmentVariables)}
    \cup (({pkg.runtimeArguments[i].name : i \in 1..Len(pkg.runtimeArguments)}
           \cup {pkg.runtimeArguments[i].valueHint : i \in 1..Len(pkg.runtimeArguments)}
           \cup {pkg.packageArguments[i].name : i \in 1..Len(pkg.packageArguments)}
           \cup {pkg.packageArguments[i].valueHint : i \in 1..Len(pkg.packageArguments)})
          \ {""})

\* C14: a stdio transport passes exactly when its url is empty; a streamable-http
\* or sse transport fails on an empty url and passes only if every {name}
\* placeholder of its url is declared by the package, https://example.com/{port}
\* passing exactly when port is declared; any other type fails as unsupported.
C14_PackageTransport ==
    (cpc = "done" /\ call.fn = "validatePackageTransport") =>
        LET transport == call.arg.transport
            holes     == extractTemplateVariables(transport.url)
            network   == transport.type \in {TransportTypeStreamableHTTP, TransportTypeSSE}
        IN  /\ transport.type = TransportTypeStdio => ((cret = Nil) <=> (transport.url = ""))
            /\ (network /\ transport.url = "") => cret # Nil
            /\ (network /\ cret = Nil) =>
                   \A i \in 1..Len(holes) : holes[i] \in DeclaredVariables(call.arg)
            /\ (network /\ transport.url = "https://example.com/{port}") =>
                   ((cret = Nil) <=> ("port" \in DeclaredVariables(call.arg)))
            /\ (~network /\ transport.type # TransportTypeStdio) =>
                   cret = "unsupported transport type: " \o transport.type

C14_Witness ==
    /\ cpc = "done" /\ call.fn = "validatePackageTransport"
    /\ call.arg.transport = Transport(TransportTypeStreamableHTTP, "https://example.com/{port}")
    /\ call.arg.environmentVariables = <<>> /\ call.arg.packageArguments = <<>>
    /\ call.arg.runtimeArguments = <<Arg(ArgumentTypeNamed, "--port", "", "", "port")>>
    /\ cret = Nil

ExtensionTooLarge(r) == r.publisherProvided.present /\ r.publisherProvided.bytes > 4096

\* C15: ValidatePublishRequest fails on the extension size first (present and
\* longer than 4096 bytes, 4096 itself passing), then on ValidateServerJSON, then
\* on the first package whose ownership check fails; ValidatePackage is called
\* only with the flag enabled and the first two stages passed, for the packages in
\* order, and for none after a failing one.
C15_PublishStages ==
    /\ \A i \in 1..Len(ownerCalls) :
           /\ ownerCalls[i].index = i - 1
           /\ i < Len(ownerCalls) => ~ownerCalls[i].failed
    /\ Len(ownerCalls) <= Len(req.server.packages)
    /\ ownerCalls # <<>> =>
           /\ cfg.EnableRegistryValidation
           /\ ~ExtensionTooLarge(req)
           /\ ValidateServerJSON(req.server) = Nil
    /\ ppc = "done" =>
           IF ExtensionTooLarge(req)
           THEN HasPrefix(perr, "_meta.io.modelcontextprotocol.registry/publisher-provided extension exceeds 4KB limit")
           ELSE IF ValidateServerJSON(req.server) # Nil
           THEN perr = ValidateServerJSON(req.server)
           ELSE IF ~cfg.EnableRegistryValidation THEN perr = Nil
           ELSE IF perr = Nil
           THEN Len(ownerCalls) = Len(req.server.packages)
           ELSE /\ ownerCalls # <<>> /\ ownerCalls[Len(ownerCalls)].failed
                /\ HasPrefix(perr, "registry validation failed for package "
                                   \o Itoa(Len(ownerCalls) - 1) \o " (")

C15_Witness ==
    /\ ppc = "done"
    /\ req.publisherProvided = [present |-> TRUE, bytes |-> 4096]
    /\ Len(req.server.packages) = 3
    /\ Len(ownerCalls) = 2 /\ ownerCalls[2].failed
    /\ HasPrefix(perr, "registry validation failed for package 1 (pkg-2)")

URLPathOf(locator) ==
    LET rest    == After(locator, Index(locator, "://") + 2)
        noFrag  == Before(rest, Index(rest, "#"))
        noQuery == Before(noFrag, Index(noFrag, "?"))
        slash   == Index(noQuery, "/")
    IN  IF slash = 0 THEN "" ELSE After(noQuery, slash - 1)

ClassifiedByURLPath(locator) ==
    IF ~(HasPrefix(locator, "http://") \/ HasPrefix(locator, "https://")) THEN "local"
    ELSE IF Contains(URLPathOf(locator), "/v0/servers") THEN "catalog"
    ELSE "file"

\* C17: the fetch strategy of an import is the catalog one exactly when the locator
\* starts with http:// or https:// and the path component of the URL contains
\* /v0/servers, the remote-file one for every other http(s) locator, and the
\* local-file one otherwise.
C17_StrategyFollowsURLPath ==
    strategy # "" => strategy = ClassifiedByURLPath(path)

\* The stages of ValidateServerJSON before the namespace checks all pass.
EarlyStagesPass(mm) ==
    FirstError(<<validateSchema(mm), parseServerName(mm), validateVersion(mm.version),
                 validateRepository(mm.repository), validateWebsiteURL(mm.websiteUrl),
                 validateTitle(mm.title), validateIcons(mm.icons),
                 validatePackages(mm), validateRemotes(mm)>>) = Nil

\* C18: a manifest whose namespace has fewer than two labels fails the namespace
\* checks with the invalid-namespace-format error, whichever URLs it declares.
C18_ShortNamespaceRejected ==
    (vpc = "done" /\ Len(NamespaceLabels(m.name)) < 2 /\ EarlyStagesPass(m)) =>
        HasSuffix(verr, "invalid namespace format: cannot extract domain from " \o m.name)

\* C19: for an http(s) locator that is a registry root URL (no path, no
\* /v0/servers in it), ImportFromPath appends /v0/servers and pages through that
\* endpoint.
C19_RootURLGetsCatalogPath ==
    (strategy # "" /\ IsHTTP(path) /\ ~Contains(path, "/v0/servers")
        /\ URLPathOf(path) \in {"", "/"}) =>
        /\ strategy = "catalog"
        /\ HasPrefix(lastUrl, path \o "/v0/servers")

\* A part of a server name: not empty, alphanumeric at both ends, allowed inside.
PartOK(part, allowed) ==
    /\ part # ""
    /\ Char(part, 1) \in Alnum /\ Char(part, Len(part)) \in Alnum
    /\ \A i \in 1..Len(part) : Char(part, i) \in allowed

\* C20: parseServerName accepts a name exactly when it has one '/', and namespace
\* and name part are each non-empty, alphanumeric at both ends and made of allowed
\* characters, a single alphanumeric character included; when only one side is
\* malformed the error names that side.
C20_NameParser ==
    (cpc = "done" /\ call.fn = "parseServerName") =>
        LET name == call.arg.name
            ns   == Before(name, Index(name, "/"))
            np   == After(name, Index(name, "/"))
            nsOK == PartOK(ns, Alnum \cup {".", "-"})
            npOK == PartOK(np, Alnum \cup {".", "-", "_"})
        IN  /\ (cret = Nil) <=> (Count(name, "/") = 1 /\ nsOK /\ npOK)
            /\ (Count(name, "/") = 1 /\ ns # "" /\ np # "" /\ ~nsOK /\ npOK) =>
                   HasPrefix(cret, ErrInvalidServerNameFormat \o ": namespace '")
            /\ (Count(name, "/") = 1 /\ ns # "" /\ np # "" /\ nsOK /\ ~npOK) =>
                   HasPrefix(cret, ErrInvalidServerNameFormat \o ": name '")

\* The dot-separated segments of a version without its pre-release suffix.
VersionSegments(v) ==
    LET trimmed == TrimSpace(v)
    IN  Split(Before(trimmed, Index(trimmed, "-")), ".")

HasWildcardSegment(v) ==
    \E i \in 1..Len(VersionSegments(v)) : VersionSegments(v)[i] \in {"x", "X", "*"}

IsOtherRange(v) ==
    LET trimmed == TrimSpace(v)
    IN  comparatorRangeRe(trimmed) \/ hyphenRangeRe(trimmed) \/ orRangeRe(trimmed)

\* C21: a version that is not a comparator, hyphen or OR range is rejected as a
\* range only if one of its dot-separated segments is x, X or *; 1.2.3-next and
\* 1.0.0-linux, whose pre-release suffix holds the letter x, are accepted.
C21_WildcardNeedsWildcardSegment ==
    (cpc = "done" /\ call.fn = "validateVersion" /\ call.arg # "latest"
        /\ ~IsOtherRange(call.arg)) =>
        /\ cret # Nil => HasWildcardSegment(call.arg)
        /\ call.arg \in {"1.2.3-next", "1.0.0-linux"} => cret = Nil

====
